---- MODULE Spec2Model ----
(***************************************************************************)
(* A model of the yarn plugin `pin-deps`                                   *)
(* (packages/plugin-pin-deps/sources/index.ts).                            *)
(*                                                                         *)
(* Strings that the program compares, concatenates or parses (ranges,      *)
(* versions, rendered references, filter references) are sequences of      *)
(* tokens: a token is a digit, a punctuation mark or a word, so that       *)
(* "lib:^1.0.0" is <<"lib", ":", "^", "1", ".", "0", ".", "0">>.            *)
(* Rendering (pRef), semver parsing and the comparison `version === range` *)
(* work on these sequences.                                                *)
(***************************************************************************)
EXTENDS Integers, Sequences, FiniteSets, TLC

VARIABLES
    \* command options (lines 58-87), fixed for a run
    dryRun, onlyDevDependencies, ignoreDevDependencies,
    onlyPackages, alsoIncludePackages, onlyWorkspaces,
    \* the host project (this.project): resolved graph and workspaces
    storedResolutions, storedPackages, manifests, disk,
    \* the manifest files as they were before the first run
    original,
    \* fields of the command object
    workspaces, locatorsByIdent,
    pinnableByWorkspaceCwd, reportablePinsByWorkspaceCwd,
    \* the report channel (this.log) and the persistence collaborator
    log, reportedJson, persistCalls,
    \* position of the run: which step of execute() is next
    pc, wsIdx, depIdx, run

options == <<dryRun, onlyDevDependencies, ignoreDevDependencies,
             onlyPackages, alsoIncludePackages, onlyWorkspaces>>
graph == <<storedResolutions, storedPackages, original>>
plan == <<pinnableByWorkspaceCwd, reportablePinsByWorkspaceCwd>>
vars == <<options, graph, manifests, disk, workspaces, locatorsByIdent, plan,
          log, reportedJson, persistCalls, pc, wsIdx, depIdx, run>>

----------------------------------------------------------------------------
(* Bounds of the model *)

\* largest number of resolved locators one identity has in the project
MaxLocators == 2

\* number of times the command is run in a row on the same project
MaxRuns == 2

----------------------------------------------------------------------------
(* Token strings and the semver library *)

Digits == {"0", "1", "2", "3", "4", "5", "6", "7", "8", "9"}

DigitVal(t) ==
    CASE t = "0" -> 0 [] t = "1" -> 1 [] t = "2" -> 2 [] t = "3" -> 3
      [] t = "4" -> 4 [] t = "5" -> 5 [] t = "6" -> 6 [] t = "7" -> 7
      [] t = "8" -> 8 [] t = "9" -> 9

\* a full version "a.b.c"
IsVersion(s) ==
    /\ Len(s) = 5
    /\ s[1] \in Digits /\ s[2] = "." /\ s[3] \in Digits
    /\ s[4] = "." /\ s[5] \in Digits

ParseVersion(s) == <<DigitVal(s[1]), DigitVal(s[3]), DigitVal(s[5])>>

HasToken(s, t) == \E i \in 1..Len(s) : s[i] = t

\* semverUtils.validRange(range): null for a protocol reference (one holding
\* a ":") and for what semver cannot parse as a range; an exact version, a
\* caret or tilde range and "*" are ranges.
semverValidRange(range) ==
    /\ ~HasToken(range, ":")
    /\ \/ IsVersion(range)
       \/ Len(range) = 6 /\ range[1] \in {"^", "~"} /\ IsVersion(Tail(range))
       \/ range = <<"*">>

\* lexicographic order of parsed versions
VersionLess(a, b) ==
    \/ a[1] < b[1]
    \/ a[1] = b[1] /\ a[2] < b[2]
    \/ a[1] = b[1] /\ a[2] = b[2] /\ a[3] < b[3]

\* semver.gt(a, b) on version strings
semverGt(a, b) == VersionLess(ParseVersion(b), ParseVersion(a))

\* semver.satisfies(version, range): false when the range does not parse
semverSatisfies(version, range) ==
    IF ~semverValidRange(range) \/ ~IsVersion(version) THEN FALSE
    ELSE IF range = <<"*">> THEN TRUE
    ELSE IF IsVersion(range) THEN ParseVersion(version) = ParseVersion(range)
    ELSE LET v == ParseVersion(version)
             r == ParseVersion(Tail(range))
         IN  IF range[1] = "~"
             THEN v[1] = r[1] /\ v[2] = r[2] /\ v[3] >= r[3]
             ELSE IF r[1] > 0
                  THEN v[1] = r[1] /\ ~VersionLess(v, r)
                  ELSE IF r[2] > 0
                       THEN v[1] = 0 /\ v[2] = r[2] /\ v[3] >= r[3]
                       ELSE v = r

----------------------------------------------------------------------------
(* Descriptors, references and filters *)

\* a descriptor without scope has scope null
NoScope == "null"

\* pRef(pkg) without highlighting: "@scope/name:range" or "name:range"
pRef(scope, name, range) ==
    (IF scope # NoScope THEN <<"@", scope, "/">> ELSE <<>>)
        \o <<name, ":">> \o range

\* PinDepsCommand.referencesPackage(refPkg, {scope, name, range})
referencesPackage(refPkg, scope, name, range) ==
    LET candidatePkg == pRef(scope, name, range)
        exactMatch == refPkg = candidatePkg
        rangeMatch == refPkg \in {<<":">> \o range, <<"*", ":">> \o range}
    IN  exactMatch \/ rangeMatch

\* an Option.Array is undefined unless the flag was given at least once
OptionItems(opt) == IF opt.defined THEN opt.items ELSE <<>>

SeqIncludes(s, x) == \E i \in 1..Len(s) : s[i] = x

\* isDependencyExplicitlyIncluded({scope, name, range})
isDependencyExplicitlyIncluded(scope, name, range) ==
    LET included == \E i \in 1..Len(OptionItems(alsoIncludePackages)) :
                        referencesPackage(OptionItems(alsoIncludePackages)[i],
                                          scope, name, range)
        selected == \E i \in 1..Len(OptionItems(onlyPackages)) :
                        referencesPackage(OptionItems(onlyPackages)[i],
                                          scope, name, range)
    IN  included \/ selected

\* PinDepsCommand.needsPin(range)
needsPin(range) == IF ~semverValidRange(range) THEN FALSE ELSE TRUE

----------------------------------------------------------------------------
(* The resolved graph *)

\* Map.set(key, value) and Map.get(key) on maps modelled as functions whose
\* domain is the set of keys present
MapSet(m, k, v) == (k :> v) @@ m
MapHas(m, k) == k \in DOMAIN m

Locator(identHash, protocol, version) ==
    [identHash |-> identHash, protocol |-> protocol, version |-> version]

\* structUtils.isVirtualLocator(pkg)
isVirtualLocator(pkg) == pkg.locatorHash.protocol = "virtual"

\* structUtils.devirtualizeLocator(pkg).locatorHash: the locator the virtual
\* instance was made from
devirtualizeLocator(pkg) ==
    Locator(pkg.locatorHash.identHash, "npm", pkg.locatorHash.version)

\* structUtils.areLocatorsEqual(a, b)
areLocatorsEqual(a, b) == a.locatorHash = b.locatorHash

\* the value of storedPackages.get(hash) when the map has no such key, and
\* the version of a package that has none
UndefinedPackage ==
    [locatorHash |-> Locator("", "undefined", <<>>), version |-> <<"undefined">>]
NullVersion == <<"null">>

StoredPackagesGet(locatorHash) ==
    IF MapHas(storedPackages, locatorHash) THEN storedPackages[locatorHash]
    ELSE UndefinedPackage

\* Array.from(set): the elements in some order
ArrayFrom(S) ==
    CHOOSE s \in [1..Cardinality(S) -> S] : \A x \in S : \E i \in DOMAIN s : s[i] = x

IndexPermutations(s) ==
    {p \in [DOMAIN s -> DOMAIN s] : \A i, j \in DOMAIN s : i # j => p[i] # p[j]}

\* the comparator handed to Array.prototype.sort (lines 457-463)
compareCandidates(a, b, explicitlyIncluded) ==
    IF explicitlyIncluded THEN -1
    ELSE IF semverGt(a.version, b.version) THEN -1 ELSE 1

\* The arrays Array.prototype.sort can leave for that comparator.  Between two
\* candidates of different versions the comparator of an entry that is not
\* explicitly included answers by version, so every engine leaves the array in
\* descending version order (equal versions in any order).  For an explicitly
\* included entry the comparator answers -1 to both (a, b) and (b, a): it is
\* not a consistent comparison function and the order is whatever the engine
\* leaves (the array reversed, the array unchanged, ...).
sortCandidates(s, explicitlyIncluded) ==
    {[i \in DOMAIN s |-> s[p[i]]] : p \in
        {q \in IndexPermutations(s) :
            \A i, j \in DOMAIN s :
                (i < j /\ s[q[i]].version # s[q[j]].version)
                    => compareCandidates(s[q[i]], s[q[j]], explicitlyIncluded) < 0}}

\* lines 431-445: the package of every locator hash, a virtual package
\* replaced by the package it was made from
mapCandidates(hashes) ==
    [i \in DOMAIN hashes |->
        LET pkg == StoredPackagesGet(hashes[i])
        IN  IF isVirtualLocator(pkg)
            THEN StoredPackagesGet(devirtualizeLocator(pkg))
            ELSE pkg]

\* line 434: a locator hash without package record makes the map throw
mapThrows(hashes) ==
    \E i \in DOMAIN hashes : ~MapHas(storedPackages, hashes[i])

\* range.match(/^(.*)$/): a range is a single line, so the match is never
\* null and its group 1 is the whole range
semverMatch(range) == <<range, range>>

\* keepCandidate without the override for explicitly included entries
keepCandidateByRangeOnly(sourcePackage, range, explicitlyIncluded) ==
    /\ sourcePackage # UndefinedPackage
    /\ sourcePackage.version # NullVersion
    /\ semverSatisfies(sourcePackage.version, range)

\* keepCandidate without the range filter
keepCandidateAlways(sourcePackage, range, explicitlyIncluded) ==
    /\ sourcePackage # UndefinedPackage
    /\ sourcePackage.version # NullVersion

\* lines 446-456: the candidates kept
keepCandidate(sourcePackage, range, explicitlyIncluded) ==
    IF sourcePackage = UndefinedPackage \/ sourcePackage.version = NullVersion
    THEN FALSE
    ELSE IF explicitlyIncluded THEN TRUE
    ELSE semverSatisfies(sourcePackage.version, semverMatch(range)[2])

filterCandidates(s, range, explicitlyIncluded) ==
    LET Keep(pkg) == keepCandidate(pkg, range, explicitlyIncluded)
    IN  SelectSeq(s, Keep)

\* numDupes counting only the pairs of equal version
numDupesOfEqualVersion(candidates) ==
    Cardinality({pr \in (DOMAIN candidates) \X (DOMAIN candidates) :
                    /\ pr[1] < pr[2]
                    /\ candidates[pr[1]].version = candidates[pr[2]].version
                    /\ candidates[pr[1]].locatorHash # candidates[pr[2]].locatorHash})

\* lines 467-476: the pairs of candidates whose locators differ
numDupes(candidates) ==
    Cardinality({pr \in (DOMAIN candidates) \X (DOMAIN candidates) :
                    /\ pr[1] < pr[2]
                    /\ ~areLocatorsEqual(candidates[pr[1]], candidates[pr[2]])})

----------------------------------------------------------------------------
(* The project the command runs on *)

\* this.project.workspaces: the root workspace and one nested workspace
ProjectWorkspaces ==
    << [cwd |-> "/repo", relativeCwd |-> ".", name |-> "app"],
       [cwd |-> "/repo/tools", relativeCwd |-> "tools", name |-> "tools"] >>

Cwds == {ProjectWorkspaces[i].cwd : i \in DOMAIN ProjectWorkspaces}

\* Manifest.dependencies / devDependencies: a Map from identHash to
\* descriptor, modelled as the sequence of its values in insertion order
ManifestHas(deps, identHash) == \E i \in DOMAIN deps : deps[i].identHash = identHash
ManifestGet(deps, identHash) ==
    deps[CHOOSE i \in DOMAIN deps : deps[i].identHash = identHash]

\* the report channel: one record per reportInfo / reportWarning /
\* logVerboseInfo / logVerboseWarning call (the verbose ones are recorded
\* whether or not --verbose prints them), with the entry it is about
Event(type, ws, dep, isDev, version, n, dupes) ==
    [type |-> type, ws |-> ws, dependency |-> dep, dev |-> isDev,
     version |-> version, n |-> n, dupes |-> dupes]

NoDep == [identHash |-> "", scope |-> NoScope, name |-> "", range |-> <<>>]

----------------------------------------------------------------------------
(* gatherWorkspaces, lines 162-201 *)

possibleWorkspaceRefs(workspace) ==
    {workspace.cwd, workspace.relativeCwd, workspace.name} \ {""}

includeWorkspace(workspace) ==
    \E i \in 1..Len(onlyWorkspaces.items) :
        onlyWorkspaces.items[i] \in possibleWorkspaceRefs(workspace)

GatherWorkspaces ==
    /\ pc = "gather"
    /\ LET shouldCheckAllWorkspaces ==
               ~onlyWorkspaces.defined \/ Len(onlyWorkspaces.items) = 0
       IN  IF shouldCheckAllWorkspaces
           THEN /\ workspaces' = ProjectWorkspaces
                /\ log' = log
           ELSE /\ workspaces' = SelectSeq(ProjectWorkspaces, includeWorkspace)
                /\ log' = log \cup
                     {Event(IF includeWorkspace(ProjectWorkspaces[i])
                            THEN "IncludingWorkspace" ELSE "ExcludingWorkspace",
                            ProjectWorkspaces[i].cwd, NoDep, FALSE, <<>>, 0, 0) :
                        i \in DOMAIN ProjectWorkspaces}
    /\ pc' = "index"
    /\ UNCHANGED <<options, graph, manifests, disk, locatorsByIdent, plan,
                   reportedJson, persistCalls, wsIdx, depIdx, run>>

----------------------------------------------------------------------------
(* createLocatorsByIdentMap, lines 138-160 *)

\* storedResolutions is a set of (descriptor, locatorHash) associations; the
\* descriptor of an association is the value storedDescriptors holds for it
createLocatorsByIdentMap ==
    [key \in {r.descriptor.identHash : r \in storedResolutions} |->
        {r.locatorHash : r \in {q \in storedResolutions :
                                    q.descriptor.identHash = key}}]

CreateLocatorsByIdentMap ==
    /\ pc = "index"
    /\ locatorsByIdent' = createLocatorsByIdentMap
    /\ pc' = "find"
    /\ UNCHANGED <<options, graph, manifests, disk, workspaces, plan, log,
                   reportedJson, persistCalls, wsIdx, depIdx, run>>

----------------------------------------------------------------------------
(* findPinnableDependencies, lines 331-378 *)

EmptyMap == <<>>

\* lines 332-339
FindPinnableDependencies ==
    /\ pc = "find"
    /\ pinnableByWorkspaceCwd' = EmptyMap
    /\ reportablePinsByWorkspaceCwd' = EmptyMap
    /\ pc' = "workspace"
    /\ wsIdx' = 1
    /\ depIdx' = 1
    /\ UNCHANGED <<options, graph, manifests, disk, workspaces, locatorsByIdent,
                   log, reportedJson, persistCalls, run>>

\* lines 354-376: the processDependency calls of one workspace, in order
Worklist(cwd) ==
    LET dependencies == manifests[cwd].dependencies
        devDependencies == manifests[cwd].devDependencies
        regular == IF ~onlyDevDependencies
                   THEN [i \in DOMAIN dependencies |->
                            [dependency |-> dependencies[i], isDevDependency |-> FALSE]]
                   ELSE <<>>
        dev == IF onlyDevDependencies \/ ~ignoreDevDependencies
               THEN [i \in DOMAIN devDependencies |->
                        [dependency |-> devDependencies[i], isDevDependency |-> TRUE]]
               ELSE <<>>
    IN  regular \o dev

\* lines 345-352: the two maps of the workspace are created, then its
\* entries are processed one by one
EnterWorkspace ==
    /\ pc = "workspace"
    /\ wsIdx <= Len(workspaces)
    /\ LET workspaceCwd == workspaces[wsIdx].cwd
       IN  /\ pinnableByWorkspaceCwd' =
                  MapSet(pinnableByWorkspaceCwd, workspaceCwd, EmptyMap)
           /\ reportablePinsByWorkspaceCwd' =
                  MapSet(reportablePinsByWorkspaceCwd, workspaceCwd, EmptyMap)
           /\ IF Len(Worklist(workspaceCwd)) = 0
              THEN pc' = pc /\ wsIdx' = wsIdx + 1
              ELSE pc' = "deps" /\ wsIdx' = wsIdx
    /\ depIdx' = 1
    /\ UNCHANGED <<options, graph, manifests, disk, workspaces, locatorsByIdent,
                   log, reportedJson, persistCalls, run>>

----------------------------------------------------------------------------
(* processDependency, lines 380-514 *)

\* line 427: this.locatorsByIdent.get(identHash), the empty set when the map
\* has no such key (the map never holds an empty set)
locatorHashesOf(identHash) ==
    IF MapHas(locatorsByIdent, identHash) THEN locatorsByIdent[identHash] ELSE {}

\* lines 400-403: the call passes name and range only, scope is undefined
explicitlyIncludedOf(dependency) ==
    isDependencyExplicitlyIncluded(NoScope, dependency.name, dependency.range)

\* line 417
omittedByOnly(dependency) ==
    /\ onlyPackages.defined
    /\ ~SeqIncludes(onlyPackages.items,
                    pRef(dependency.scope, dependency.name, dependency.range))

\* lines 431-463: the arrays `candidates` can be after map, filter and sort
\* (one empty array where the branch is not taken or the map throws)
sortedCandidates(dependency) ==
    LET hashes == locatorHashesOf(dependency.identHash)
        explicitlyIncluded == explicitlyIncludedOf(dependency)
    IN  IF Cardinality(hashes) > 1 /\ ~mapThrows(ArrayFrom(hashes))
        THEN sortCandidates(
                 filterCandidates(mapCandidates(ArrayFrom(hashes)),
                                  dependency.range, explicitlyIncluded),
                 explicitlyIncluded)
        ELSE {<<>>}

\* lines 496-513, reached with pinTo assigned or left undefined
finishDependency(dependency, isDev, workspaceCwd, pinTo, events) ==
    LET explicitlyIncluded == explicitlyIncludedOf(dependency)
    IN  IF pinTo = UndefinedPackage
        THEN [result |-> "throw", pinTo |-> pinTo,
              events |-> events \cup
                  {Event("TypeError", workspaceCwd, dependency, isDev, <<>>, 0, 0)}]
        ELSE IF pinTo.version = dependency.range
        THEN [result |-> "already", pinTo |-> pinTo,
              events |-> events \cup
                  {Event("AlreadyPinned", workspaceCwd, dependency, isDev,
                         pinTo.version, 0, 0)}]
        ELSE [result |-> "pin", pinTo |-> pinTo,
              events |-> events \cup
                  {Event("WillPin", workspaceCwd, dependency, isDev,
                         pinTo.version, 0, 0)}]

\* one call of processDependency, `candidates` being the sorted array of
\* lines 431-463: what it reports, whether it returns, throws, or sets a pin
processDependency(dependency, isDev, workspaceCwd, candidates) ==
    LET range == dependency.range
        explicitlyIncluded == explicitlyIncludedOf(dependency)
        locatorHashes == locatorHashesOf(dependency.identHash)
        Ev(type, version, n, d) ==
            Event(type, workspaceCwd, dependency, isDev, version, n, d)
        gate == IF needsPin(range) THEN {}
                ELSE IF explicitlyIncluded THEN {Ev("Include", <<>>, 0, 0)}
                ELSE {Ev("Skip", <<>>, 0, 0)}
        duplicate == IF Len(candidates) > 1 /\ numDupes(candidates) > 0
                     THEN {Ev("PossibleDuplicate", <<>>, Len(candidates),
                              numDupes(candidates))}
                     ELSE {}
    IN  IF ~needsPin(range) /\ ~explicitlyIncluded
        THEN [result |-> "return", pinTo |-> UndefinedPackage, events |-> gate]
        ELSE IF omittedByOnly(dependency)
        THEN [result |-> "return", pinTo |-> UndefinedPackage,
              events |-> gate \cup {Ev("Omit", <<>>, 0, 0)}]
        ELSE IF Cardinality(locatorHashes) > 1
        THEN IF mapThrows(ArrayFrom(locatorHashes)) \/ Len(candidates) = 0
             THEN [result |-> "throw", pinTo |-> UndefinedPackage,
                   events |-> gate \cup duplicate \cup {Ev("TypeError", <<>>, 0, 0)}]
             ELSE finishDependency(dependency, isDev, workspaceCwd,
                      StoredPackagesGet(candidates[1].locatorHash),
                      gate \cup duplicate)
        ELSE IF Cardinality(locatorHashes) = 1
        THEN finishDependency(dependency, isDev, workspaceCwd,
                 StoredPackagesGet(CHOOSE h \in locatorHashes : TRUE), gate)
        ELSE finishDependency(dependency, isDev, workspaceCwd, UndefinedPackage,
                 gate \cup {Ev("MissingLocator", <<>>, 0, 0)})

ProcessDependency ==
    /\ pc = "deps"
    /\ LET workspaceCwd == workspaces[wsIdx].cwd
           work == Worklist(workspaceCwd)
           dependency == work[depIdx].dependency
           isDev == work[depIdx].isDevDependency
       IN  \E candidates \in sortedCandidates(dependency) :
             LET out == processDependency(dependency, isDev, workspaceCwd, candidates)
             IN  /\ log' = log \cup out.events
                 /\ IF out.result = "throw"
                    THEN /\ pc' = "aborted"
                         /\ UNCHANGED <<plan, wsIdx, depIdx>>
                    ELSE /\ IF out.result = "pin"
                            THEN /\ pinnableByWorkspaceCwd' =
                                      [pinnableByWorkspaceCwd EXCEPT ![workspaceCwd] =
                                          MapSet(@, dependency.identHash, out.pinTo)]
                                 /\ reportablePinsByWorkspaceCwd' =
                                      [reportablePinsByWorkspaceCwd EXCEPT ![workspaceCwd] =
                                          MapSet(@, pRef(dependency.scope, dependency.name,
                                                         dependency.range),
                                                 out.pinTo.version)]
                            ELSE UNCHANGED plan
                         /\ IF depIdx < Len(work)
                            THEN depIdx' = depIdx + 1 /\ UNCHANGED <<pc, wsIdx>>
                            ELSE depIdx' = 1 /\ pc' = "workspace" /\ wsIdx' = wsIdx + 1
    /\ UNCHANGED <<options, graph, manifests, disk, workspaces, locatorsByIdent,
                   reportedJson, persistCalls, run>>

----------------------------------------------------------------------------
(* pinDependencies, lines 203-282 *)

\* findPinnableDependenciesDone with pinDependencies started as soon as the
\* first workspace is planned
findPinnableDependenciesNotAwaited == wsIdx > 1

\* lines 132-133: `await this.findPinnableDependencies()` has returned, the
\* loop over this.workspaces is over
findPinnableDependenciesDone == wsIdx > Len(workspaces)

\* lines 204-209: the JSON summary is reported before anything is applied
ReportPinnable ==
    /\ pc = "workspace"
    /\ findPinnableDependenciesDone
    /\ reportedJson' = [reported |-> TRUE, data |-> reportablePinsByWorkspaceCwd]
    /\ wsIdx' = 1
    /\ pc' = IF Len(workspaces) = 0 THEN "done" ELSE "apply"
    /\ UNCHANGED <<options, graph, manifests, disk, workspaces, locatorsByIdent,
                   plan, log, persistCalls, depIdx, run>>

\* lines 219-223: curDependency ?? curDevDependency
curValue(manifest, identHash) ==
    IF ManifestHas(manifest.dependencies, identHash)
    THEN ManifestGet(manifest.dependencies, identHash)
    ELSE ManifestGet(manifest.devDependencies, identHash)

\* lines 240-252: the planned identities whose entry is rewritten
pinnedIdents(manifest, needsPinning) ==
    {identHash \in DOMAIN needsPinning :
        curValue(manifest, identHash).range # needsPinning[identHash].version}

\* lines 244-252: the manifest after the loop over the plan
pinManifest(manifest, needsPinning) ==
    LET pinned == pinnedIdents(manifest, needsPinning)
        regular == {manifest.dependencies[i].identHash :
                        i \in DOMAIN manifest.dependencies}
    IN  [dependencies |->
            [i \in DOMAIN manifest.dependencies |->
                IF manifest.dependencies[i].identHash \in pinned
                THEN [manifest.dependencies[i] EXCEPT
                        !.range = needsPinning[manifest.dependencies[i].identHash].version]
                ELSE manifest.dependencies[i]],
         devDependencies |->
            [i \in DOMAIN manifest.devDependencies |->
                IF /\ manifest.devDependencies[i].identHash \in pinned
                   /\ manifest.devDependencies[i].identHash \notin regular
                THEN [manifest.devDependencies[i] EXCEPT
                        !.range = needsPinning[manifest.devDependencies[i].identHash].version]
                ELSE manifest.devDependencies[i]]]

\* persistsManifest without the --dry check
persistsManifestAlways(numPinned) == numPinned > 0

\* line 269: whether the manifest is written
persistsManifest(numPinned) == numPinned > 0 /\ ~dryRun

\* lines 212-280: the body of the loop for one workspace
PinWorkspace ==
    /\ pc = "apply"
    /\ wsIdx <= Len(workspaces)
    /\ LET workspaceCwd == workspaces[wsIdx].cwd
           manifest == manifests[workspaceCwd]
           needsPinning == pinnableByWorkspaceCwd[workspaceCwd]
           numPinned == Cardinality(pinnedIdents(manifest, needsPinning))
           conflicts ==
               {Event("Conflict", workspaceCwd, curValue(manifest, identHash),
                      FALSE, <<>>, 0, 0) :
                   identHash \in {h \in DOMAIN needsPinning :
                       /\ ManifestHas(manifest.dependencies, h)
                       /\ ManifestHas(manifest.devDependencies, h)}}
           pins ==
               {Event("Pin", workspaceCwd, curValue(manifest, identHash),
                      ~ManifestHas(manifest.dependencies, identHash),
                      needsPinning[identHash].version, 0, 0) :
                   identHash \in pinnedIdents(manifest, needsPinning)}
           saved == IF numPinned > 0
                    THEN {Event(IF dryRun THEN "SavedDryRun" ELSE "Saved",
                                workspaceCwd, NoDep, FALSE, <<>>, numPinned, 0)}
                    ELSE {}
       IN  /\ manifests' = [manifests EXCEPT ![workspaceCwd] =
                               pinManifest(manifest, needsPinning)]
           /\ IF persistsManifest(numPinned)
              THEN /\ disk' = [disk EXCEPT ![workspaceCwd] = manifests'[workspaceCwd]]
                   /\ persistCalls' = Append(persistCalls, workspaceCwd)
              ELSE UNCHANGED <<disk, persistCalls>>
           /\ log' = log \cup conflicts \cup pins \cup saved
    /\ wsIdx' = wsIdx + 1
    /\ pc' = IF wsIdx = Len(workspaces) THEN "done" ELSE pc
    /\ UNCHANGED <<options, graph, workspaces, locatorsByIdent, plan,
                   reportedJson, depIdx, run>>

----------------------------------------------------------------------------
(* execute, lines 97-136: a run of the command *)

\* the state of a freshly constructed command object
Fresh ==
    /\ workspaces = <<>>
    /\ locatorsByIdent = EmptyMap
    /\ pinnableByWorkspaceCwd = EmptyMap
    /\ reportablePinsByWorkspaceCwd = EmptyMap
    /\ log = {}
    /\ reportedJson = [reported |-> FALSE, data |-> EmptyMap]
    /\ persistCalls = <<>>
    /\ pc = "gather"
    /\ wsIdx = 1
    /\ depIdx = 1

\* the command is invoked again, with the same options, on the project as the
\* previous run left it on disk (Project.find reads the manifests anew)
Rerun ==
    /\ pc = "done"
    /\ run < MaxRuns
    /\ run' = run + 1
    /\ manifests' = disk
    /\ workspaces' = <<>>
    /\ locatorsByIdent' = EmptyMap
    /\ pinnableByWorkspaceCwd' = EmptyMap
    /\ reportablePinsByWorkspaceCwd' = EmptyMap
    /\ log' = {}
    /\ reportedJson' = [reported |-> FALSE, data |-> EmptyMap]
    /\ persistCalls' = <<>>
    /\ pc' = "gather"
    /\ wsIdx' = 1
    /\ depIdx' = 1
    /\ UNCHANGED <<options, graph, disk>>

----------------------------------------------------------------------------
(* The projects and options the model is run on *)

Ver(major, minor, patch) == <<major, ".", minor, ".", patch>>
Caret(version) == <<"^">> \o version
Canary == <<"canary">>

LIB == "lib"
UI == "@acme/ui"

LibDep(range) == [identHash |-> LIB, scope |-> NoScope, name |-> "lib", range |-> range]
UiDep(range) == [identHash |-> UI, scope |-> "acme", name |-> "ui", range |-> range]

Package(locatorHash) == [locatorHash |-> locatorHash, version |-> locatorHash.version]

\* the locators `lib` can be resolved to: three versions from the registry,
\* a virtual instance of 1.1.0 and a patched 1.1.0
LibLocators ==
    {Locator(LIB, "npm", Ver("1", "0", "0")),
     Locator(LIB, "npm", Ver("1", "1", "0")),
     Locator(LIB, "npm", Ver("2", "0", "0")),
     Locator(LIB, "virtual", Ver("1", "1", "0")),
     Locator(LIB, "patch", Ver("1", "1", "0"))}

UiLocators == {Locator(UI, "npm", Ver("1", "1", "0"))}

Resolutions(identHash, locators) ==
    {[descriptor |-> [identHash |-> identHash], locatorHash |-> l] : l \in locators}

\* every locator of the graph has its package record
ConsistentPackages ==
    [l \in LibLocators \cup UiLocators |-> Package(l)]

AtMost(S, n) == {T \in SUBSET S : Cardinality(T) <= n}

\* zero or one entry, as a Map's value sequence
Optional(deps) == {<<>>} \cup {<<d>> : d \in deps}

Undefined == [defined |-> FALSE, items |-> <<>>]
Given(items) == [defined |-> TRUE, items |-> items]

Ref(name, range) == <<name, ":">> \o range

InitFrom(onlyChoices, alsoChoices, workspaceChoices, resolutionChoices, packageChoices, manifestChoices) ==
    /\ dryRun \in BOOLEAN
    /\ onlyDevDependencies \in BOOLEAN
    /\ ignoreDevDependencies \in BOOLEAN
    /\ onlyPackages \in onlyChoices
    /\ alsoIncludePackages \in alsoChoices
    /\ onlyWorkspaces \in workspaceChoices
    /\ storedResolutions \in resolutionChoices
    /\ storedPackages \in packageChoices
    /\ manifests \in manifestChoices
    /\ disk = manifests
    /\ original = manifests
    /\ run = 1
    /\ Fresh

\* the manifests of the default specification: the root workspace declares
\* `lib` as a dependency, as a devDependency or as both, and possibly
\* `@acme/ui`; the nested workspace declares lib:^1.0.0
AppManifests ==
    {[dependencies |-> l \o u, devDependencies |-> d] :
        l \in Optional({LibDep(Caret(Ver("1", "0", "0"))),
                        LibDep(Caret(Ver("2", "0", "0"))),
                        LibDep(Ver("1", "0", "0")),
                        LibDep(Canary)}),
        u \in Optional({UiDep(Caret(Ver("1", "0", "0"))), UiDep(Canary)}),
        d \in Optional({LibDep(Caret(Ver("1", "0", "0"))),
                        LibDep(Caret(Ver("2", "0", "0")))})}

ToolsManifest ==
    [dependencies |-> <<LibDep(Caret(Ver("1", "0", "0")))>>, devDependencies |-> <<>>]

Manifests ==
    {("/repo" :> a) @@ ("/repo/tools" :> ToolsManifest) : a \in AppManifests}

Init ==
    InitFrom({Undefined, Given(<<Ref("lib", Caret(Ver("1", "0", "0")))>>)},
             {Undefined, Given(<<<<":">> \o Canary>>),
              Given(<<<<":">> \o Ver("1", "0", "0")>>),
              Given(<<Ref("ui", Canary)>>),
              Given(<<<<"@", "acme", "/">> \o Ref("ui", Canary)>>)},
             {Undefined, Given(<<"tools">>)},
             {Resolutions(LIB, ls) \cup Resolutions(UI, UiLocators) :
                 ls \in AtMost(LibLocators, MaxLocators)},
             {ConsistentPackages},
             Manifests)

Next ==
    \/ GatherWorkspaces
    \/ CreateLocatorsByIdentMap
    \/ FindPinnableDependencies
    \/ EnterWorkspace
    \/ ProcessDependency
    \/ ReportPinnable
    \/ PinWorkspace

Spec == Init /\ [][Next]_vars

----------------------------------------------------------------------------
(* Two runs in a row, for idempotence: no package filters, every manifest   *)
(* and resolution of the default specification                              *)

InitTwice ==
    InitFrom({Undefined}, {Undefined}, {Undefined, Given(<<"tools">>)},
             {Resolutions(LIB, ls) \cup Resolutions(UI, UiLocators) :
                 ls \in AtMost(LibLocators, MaxLocators)},
             {ConsistentPackages},
             Manifests)

NextTwice == Next \/ Rerun

SpecTwice == InitTwice /\ [][NextTwice]_vars

----------------------------------------------------------------------------
(* A graph that may be inconsistent: one registry locator of `lib` may have *)
(* no package record; no package filters                                    *)

PackagesWithout(missing) ==
    [l \in (LibLocators \cup UiLocators) \ missing |-> Package(l)]

InitBroken ==
    InitFrom({Undefined}, {Undefined}, {Undefined, Given(<<"tools">>)},
             {Resolutions(LIB, ls) \cup Resolutions(UI, UiLocators) :
                 ls \in AtMost(LibLocators, MaxLocators)},
             {ConsistentPackages} \cup
                 {PackagesWithout({l}) : l \in {m \in LibLocators : m.protocol = "npm"}},
             Manifests)

SpecBroken == InitBroken /\ [][Next]_vars

----------------------------------------------------------------------------
(* What the properties below speak about *)

\* the resolved candidates of an identity, read from the graph: the locators
\* its descriptors resolve to, a virtual locator replaced by its source
ResolvedLocators(identHash) ==
    {r.locatorHash : r \in {q \in storedResolutions :
                                q.descriptor.identHash = identHash}}

ResolvedCandidates(identHash) ==
    {IF l.protocol = "virtual" THEN Locator(l.identHash, "npm", l.version) ELSE l :
        l \in ResolvedLocators(identHash)}

\* the filter references that make the command treat an entry as explicitly
\* included: name:range, :range and *:range
FilterItems ==
    {OptionItems(alsoIncludePackages)[i] : i \in 1..Len(OptionItems(alsoIncludePackages))}
        \cup {OptionItems(onlyPackages)[i] : i \in 1..Len(OptionItems(onlyPackages))}

TreatedAsExplicit(dep) ==
    FilterItems \cap {Ref(dep.name, dep.range), <<":">> \o dep.range,
                      <<"*", ":">> \o dep.range} # {}

\* the survivors of an entry: the candidates whose version satisfies its
\* range, all of them when the entry is explicitly included
Survivors(dep) ==
    {l \in ResolvedCandidates(dep.identHash) :
        TreatedAsExplicit(dep) \/ semverSatisfies(l.version, dep.range)}

IsHighest(version, locators) ==
    /\ \E l \in locators : l.version = version
    /\ \A l \in locators : ~semverGt(l.version, version)

\* the events of the calls of processDependency that chose, or failed to
\* choose, a pin target
Decisions == {e \in log : e.type \in {"WillPin", "AlreadyPinned", "TypeError"}}

SameEntry(e, f) == e.ws = f.ws /\ e.dev = f.dev /\ e.dependency = f.dependency

\* the rendered reference of an entry
RefOf(dep) == pRef(dep.scope, dep.name, dep.range)

----------------------------------------------------------------------------
(* C1 *)

\* C1: idempotence.  When a run that persisted its changes has completed and
\* the command is run again with the same options and resolutions, the
\* second run plans nothing: every workspace's plan is empty.
C1_SecondRunPlansNothing ==
    (run = 2 /\ ~dryRun) =>
        \A ws \in DOMAIN pinnableByWorkspaceCwd :
            /\ pinnableByWorkspaceCwd[ws] = EmptyMap
            /\ reportablePinsByWorkspaceCwd[ws] = EmptyMap

----------------------------------------------------------------------------
(* C2 *)

\* C2: with --dry the manifest persistence operation is never invoked and
\* every manifest file keeps its content; the plan is still computed and
\* reported (the JSON summary is the plan, and every workspace with a
\* rewritten entry reports it as saved[DRY RUN]).
C2_DryRunNeverPersists ==
    dryRun =>
        /\ persistCalls = <<>>
        /\ disk = original
        /\ pc \in {"apply", "done"} =>
              /\ reportedJson.reported
              /\ reportedJson.data = reportablePinsByWorkspaceCwd
        /\ pc = "done" =>
              \A i \in DOMAIN workspaces :
                  LET ws == workspaces[i].cwd
                  IN  manifests[ws] # original[ws] =>
                          \E e \in log : e.type = "SavedDryRun" /\ e.ws = ws

\* a dry run has completed whose plan rewrote an entry in memory
C2_Witness ==
    /\ dryRun
    /\ pc = "done"
    /\ \E ws \in DOMAIN pinnableByWorkspaceCwd :
          /\ pinnableByWorkspaceCwd[ws] # EmptyMap
          /\ manifests[ws] # original[ws]
          /\ disk[ws] = original[ws]

----------------------------------------------------------------------------
(* C3 *)

\* C3: an entry whose identity has no resolved candidate is reported as a
\* missing locator and skipped; the run does not abort on it.
C3_MissingLocatorDoesNotAbort ==
    \A e \in log :
        e.type = "MissingLocator" =>
            /\ pc # "aborted"
            /\ ~\E f \in log : f.type = "TypeError" /\ SameEntry(e, f)

----------------------------------------------------------------------------
(* C4 *)

\* C4: for an entry with several resolved candidates the pin target is the
\* highest version among the survivors (the candidates satisfying the range,
\* or all candidates when the entry is explicitly included).
C4_PinTargetIsHighestSurvivor ==
    \A e \in log :
        (/\ e.type \in {"WillPin", "AlreadyPinned"}
         /\ Cardinality(ResolvedLocators(e.dependency.identHash)) > 1)
            => IsHighest(e.version, Survivors(e.dependency))

----------------------------------------------------------------------------
(* C5 *)

\* C5: for an entry whose identity has exactly one resolved candidate, once a
\* virtual locator is replaced by its source, the pin target is that
\* candidate, whether or not its version satisfies the range.
C5_SingleCandidateIsPinTarget ==
    \A e \in Decisions :
        Cardinality(ResolvedCandidates(e.dependency.identHash)) = 1 =>
            /\ e.type # "TypeError"
            /\ \A l \in ResolvedCandidates(e.dependency.identHash) :
                  e.version = l.version

----------------------------------------------------------------------------
(* C6 *)

----------------------------------------------------------------------------
(* C7 *)

\* C7: with --only references configured, an entry whose rendered reference
\* is none of them gets no plan entry and keeps its range.
C7_OnlyLeavesOtherEntriesAlone ==
    onlyPackages.defined =>
        /\ \A e \in log :
              e.type = "WillPin" =>
                  SeqIncludes(onlyPackages.items, RefOf(e.dependency))
        /\ \A ws \in Cwds :
              /\ \A i \in DOMAIN original[ws].dependencies :
                    ~SeqIncludes(onlyPackages.items, RefOf(original[ws].dependencies[i]))
                        => manifests[ws].dependencies[i] = original[ws].dependencies[i]
              /\ \A i \in DOMAIN original[ws].devDependencies :
                    ~SeqIncludes(onlyPackages.items, RefOf(original[ws].devDependencies[i]))
                        => manifests[ws].devDependencies[i] = original[ws].devDependencies[i]

----------------------------------------------------------------------------
(* C8 *)

\* the entry matches an --also reference of the range-only form
RangeOnlyAlso(dep) ==
    SeqIncludes(OptionItems(alsoIncludePackages), <<":">> \o dep.range)

\* C8: an entry whose range is literally the range of an --also reference of
\* the form :range is never skipped for its range; unless an --only filter
\* omits it, a candidate is chosen for it among all the candidates of its
\* identity, whether or not they satisfy the range, and it gets a plan entry
\* unless the chosen version equals its range.
C8_RangeOnlyAlsoIsProcessed ==
    \A e \in log :
        RangeOnlyAlso(e.dependency) =>
            /\ e.type # "Skip"
            /\ (e.type = "Include" /\ ~omittedByOnly(e.dependency)
                    /\ ResolvedLocators(e.dependency.identHash) # {}) =>
                  \E f \in log :
                      /\ SameEntry(e, f)
                      /\ f.type \in {"WillPin", "AlreadyPinned"}
            /\ e.type \in {"WillPin", "AlreadyPinned"} =>
                  /\ \E l \in ResolvedCandidates(e.dependency.identHash) :
                        l.version = e.version
                  /\ (e.type = "AlreadyPinned") = (e.version = e.dependency.range)
            /\ e.type = "WillPin" =>
                  /\ MapHas(pinnableByWorkspaceCwd[e.ws], e.dependency.identHash)
                  /\ MapHas(reportablePinsByWorkspaceCwd[e.ws], RefOf(e.dependency))

\* an entry with the range canary, included by --also :canary, is planned to
\* a version although no version satisfies canary
C8_Witness ==
    \E e \in log :
        /\ e.type = "WillPin"
        /\ e.dependency.range = Canary
        /\ RangeOnlyAlso(e.dependency)
        /\ ~semverValidRange(e.dependency.range)
        /\ Cardinality(ResolvedLocators(e.dependency.identHash)) > 1
        /\ pinnableByWorkspaceCwd[e.ws][e.dependency.identHash].version = e.version

----------------------------------------------------------------------------
(* C9 *)

\* the range is an exact version that some resolved candidate has
PinnedToCandidate(dep) ==
    /\ IsVersion(dep.range)
    /\ \E l \in ResolvedLocators(dep.identHash) : l.version = dep.range

\* C9, as stated: an entry whose range is an exact version equal to the
\* version of some resolved candidate gets no plan entry, under any filters.
C9_ExactRangeNeverPlanned ==
    \A e \in log :
        PinnedToCandidate(e.dependency) => e.type # "WillPin"

\* C9, amended: such an entry gets no plan entry provided it is not treated
\* as explicitly included or its identity has a single resolved locator; it
\* is then found already pinned whenever a target is chosen for it.
C9_ExactRangeNotPlannedUnlessExplicit ==
    \A e \in log :
        (/\ PinnedToCandidate(e.dependency)
         /\ \/ ~TreatedAsExplicit(e.dependency)
            \/ Cardinality(ResolvedLocators(e.dependency.identHash)) = 1)
            => /\ e.type # "WillPin"
               /\ e.type = "AlreadyPinned" => e.version = e.dependency.range

\* an entry pinned to 1.0.0 has several candidates, is not explicitly
\* included, and is found already pinned
C9_Witness ==
    \E e \in log :
        /\ e.type = "AlreadyPinned"
        /\ PinnedToCandidate(e.dependency)
        /\ ~TreatedAsExplicit(e.dependency)
        /\ Cardinality(ResolvedLocators(e.dependency.identHash)) > 1
        /\ ~MapHas(pinnableByWorkspaceCwd[e.ws], e.dependency.identHash)

----------------------------------------------------------------------------
(* C10 *)

\* C10: with --only-dev no entry of a regular dependency map is planned from
\* or has its range changed.
C10_OnlyDevLeavesRegularAlone ==
    onlyDevDependencies =>
        /\ \A e \in log : e.type = "WillPin" => e.dev
        /\ \A ws \in Cwds :
              manifests[ws].dependencies = original[ws].dependencies

----------------------------------------------------------------------------
(* C11 *)

\* the resolved locators of an identity that have no package record
Unbacked(identHash) == ResolvedLocators(identHash) \ DOMAIN storedPackages

Untouched == manifests = original /\ disk = original /\ persistCalls = <<>>

----------------------------------------------------------------------------
(* C12 *)

\* C12: when every resolved locator has a package record, no entry aborts
\* the run: no call of processDependency throws, whatever its candidates.
C12_NoEntryAbortsTheRun ==
    (\A r \in storedResolutions : MapHas(storedPackages, r.locatorHash)) =>
        /\ pc # "aborted"
        /\ \A e \in log : e.type # "TypeError"

----------------------------------------------------------------------------
(* C13 *)

\* C13: an entry is treated as explicitly included exactly when its fully
\* rendered reference (with its scope) matches an --also or --only reference:
\* an entry whose range is no semver range is reported as Include when it
\* matches and as Skip when it does not.
C13_ExplicitIffRenderedRefMatches ==
    \A e \in log :
        e.type \in {"Include", "Skip"} =>
            ((e.type = "Include") <=>
                isDependencyExplicitlyIncluded(e.dependency.scope,
                                               e.dependency.name,
                                               e.dependency.range))

----------------------------------------------------------------------------
(* C14 *)

\* C14: every rewritten entry receives the version that was chosen for that
\* same entry (same workspace, same map, same declared range), so the
\* version written to an entry that is not explicitly included and has
\* several candidates satisfies the range the entry declared.
C14_WrittenVersionIsEntrysChoice ==
    \A e \in log :
        e.type = "Pin" =>
            /\ \E f \in log :
                  f.type = "WillPin" /\ SameEntry(e, f) /\ f.version = e.version
            /\ (/\ ~TreatedAsExplicit(e.dependency)
                /\ Cardinality(ResolvedCandidates(e.dependency.identHash)) > 1)
                   => semverSatisfies(e.version, e.dependency.range)

----------------------------------------------------------------------------
(* C15 *)

\* C15: an entry whose declared range is an exact version and which is not
\* explicitly included by an --also or --only reference never gets a plan
\* entry and is never rewritten, whatever the candidates of its identity.
C15_ExactRangeNeedsNoPin ==
    \A e \in log :
        (/\ e.type \in {"WillPin", "Pin"}
         /\ IsVersion(e.dependency.range))
            => isDependencyExplicitlyIncluded(e.dependency.scope,
                                              e.dependency.name,
                                              e.dependency.range)

====
